---- MODULE Spec2Model ----
(***************************************************************************)
(* Reader, MonadReader and State of OSlash (src/oslash/reader.py,          *)
(* src/oslash/state.py).                                                   *)
(*                                                                         *)
(* Python values are tagged records.  A closure the library builds is a    *)
(* record holding what the closure captures; calling it is the operator    *)
(* Call, which follows the body of the closure.  The result of a call is   *)
(* an outcome: the value returned or the exception raised, and the list of *)
(* the calls that the library's closures made on the way.                  *)
(***************************************************************************)
EXTENDS Integers, Sequences, FiniteSets

\* ------------------------------------------------------------------ bounds
MaxDepth == 2       \* combinators applied to a base computation
MaxEnv == 1         \* environments and initial states are 0 .. MaxEnv

\* ------------------------------------------------------------------ values
None == [t |-> "None"]
PyInt(n) == [t |-> "int", n |-> n]
PyBool(b) == [t |-> "bool", b |-> b]
PyTuple(a, b) == [t |-> "tuple", a |-> a, b |-> b]
\* a function of the caller, by name
Fn(name) == [t |-> "fn", name |-> name]
\* a function of the caller that captures one variable
Clo(name, c) == [t |-> "clo", name |-> name, c |-> c]
\* functools.partial(f, a)
Partial(f, a) == [t |-> "partial", f |-> f, a |-> a]

\* the sentinel imported from .util
Unit == [t |-> "Unit"]

\* ---------------------------------------------------------------- outcomes
NoCalls == << >>
Ret(v, calls) == [exc |-> "none", v |-> v, calls |-> calls]
Raise(exc, calls) == [exc |-> exc, v |-> None, calls |-> calls]
Ok(o) == o.exc = "none"

\* what a caller of run observes: the value or the exception
Seen(o) == [exc |-> o.exc, v |-> o.v]

\* `except TypeError` catches every TypeError, whatever raised it
IsTypeError(exc) == exc \in {"TypeError:arity", "TypeError:operand", "TypeError:notcallable"}

\* A call made at `site` by the closure now running: the call itself is at
\* depth 1, the calls made inside it are one level deeper.
Bump(calls) == [i \in DOMAIN calls |-> [calls[i] EXCEPT !.d = @ + 1]]
At(site, o) == [o EXCEPT !.calls = <<[site |-> site, d |-> 1]>> \o Bump(o.calls)]

\* o2 evaluated after the calls `before`
After(before, o2) == [o2 EXCEPT !.calls = before \o @]

Callable(f) == f.t \notin {"None", "int", "bool", "tuple", "Unit"}

\* ----------------------------------------------------------------- objects
\* Reader.__init__ / MonadReader: self.fn = fn
ReaderObj(cls, fn) == [t |-> "Reader", cls |-> cls, fn |-> fn]
\* State.__init__: self._value = fn
StateObj(fn) == [t |-> "State", value |-> fn]

\* the closures the library builds, each holding what it captures
LibLambdas == {"unit_lambda", "map_compose", "bind_lambda", "apply_compose",
               "ask_lambda", "asks_lambda", "local_lambda",
               "state_unit_lambda", "state_map_lambda", "state_bind_lambda",
               "get_lambda", "put_lambda"}

\* Reader.unit: cls(lambda _: value)
Reader_unit(cls, value) == ReaderObj(cls, [t |-> "unit_lambda", value |-> value])
\* Reader.pure
Reader_pure(cls, fn) == Reader_unit(cls, fn)
\* Reader.map: Reader(_compose)
Reader_map(self, fn) == ReaderObj("Reader", [t |-> "map_compose", self |-> self, fn |-> fn])
\* Reader.bind: Reader(lambda x: fn(self(x))(x))
Reader_bind(self, fn) == ReaderObj("Reader", [t |-> "bind_lambda", self |-> self, fn |-> fn])
\* MonadReader.ask: cls(lambda x: x)
ask(cls) == ReaderObj(cls, [t |-> "ask_lambda"])
\* MonadReader.asks: cls.ask().bind(Reader(lambda e: cls.unit(func(e))))
asks(cls, func) ==
    Reader_bind(ask(cls), ReaderObj("Reader", [t |-> "asks_lambda", cls |-> cls, func |-> func]))
\* MonadReader.local: Reader(lambda e: self.run(func(e)))
local(self, func) == ReaderObj("Reader", [t |-> "local_lambda", self |-> self, func |-> func])

\* State.unit: cls(lambda state: (value, state))
State_unit(value) == StateObj([t |-> "state_unit_lambda", value |-> value])
\* State.map: State(lambda state: _(*self.run(state)))
State_map(self, mapper) == StateObj([t |-> "state_map_lambda", self |-> self, mapper |-> mapper])
\* State.bind: State(lambda state: _(*self.run(state)))
State_bind(self, fn) == StateObj([t |-> "state_bind_lambda", self |-> self, fn |-> fn])
\* State.get: State(lambda state: (state, state))
State_get == StateObj([t |-> "get_lambda"])
\* State.put: State(lambda state: (Unit, new_state))
State_put(new_state) == StateObj([t |-> "put_lambda", new_state |-> new_state])

\* ------------------------------------------------------------------- calls
RECURSIVE Call(_, _)

\* Reader.__call__ without its test of args: self.fn(*args)
Reader_call_always(self, args) == Call(self.fn, args)

\* Reader.__call__: self.fn(*args) if args else self.fn  (no keyword is ever passed)
Reader_call(self, args) ==
    IF args # << >> THEN Call(self.fn, args) ELSE Ret(self.fn, NoCalls)

\* Reader.run: self(*args)
Reader_run(self, args) == Reader_call(self, args)

\* State.run: self._value(state)
State_run(self, s) == Call(self.value, <<s>>)

\* State.__call__: self.run(state)
State_call(self, args) ==
    IF Len(args) # 1 THEN Raise("TypeError:arity", NoCalls) ELSE State_run(self, args[1])

\* functools.partial(f, a): f must be callable
MkPartial(f, a, calls) ==
    IF Callable(f) THEN Ret(Partial(f, a), calls) ELSE Raise("TypeError:notcallable", calls)

\* functools.partial.__call__: f(a, *args)
Partial_call(p, args) == Call(p.f, <<p.a>> \o args)

\* Reader.map._compose
Map_compose(self, fn, x) ==
    LET a == At("self", Reader_call(self, <<x>>))
        tried == IF Ok(a) THEN After(a.calls, At("fn", Call(fn, <<a.v>>))) ELSE a
        a2 == After(tried.calls, At("self", Reader_call(self, <<x>>)))
    IN  IF ~IsTypeError(tried.exc) THEN tried
        ELSE IF ~Ok(a2) THEN a2
        ELSE MkPartial(fn, a2.v, a2.calls)

\* the lambda of Reader.bind running the bound reader on the result of self
\* instead of the environment: fn(self(x))(self(x))
Bind_lambda_wrong_env(self, fn, x) ==
    LET a == At("self", Reader_call(self, <<x>>))
        b == After(a.calls, At("fn", Call(fn, <<a.v>>)))
        c == After(b.calls, At("result", Call(b.v, <<a.v>>)))
    IN  IF ~Ok(a) THEN a ELSE IF ~Ok(b) THEN b ELSE c

\* the lambda of Reader.bind: fn(self(x))(x)
Bind_lambda(self, fn, x) ==
    LET a == At("self", Reader_call(self, <<x>>))
        b == After(a.calls, At("fn", Call(fn, <<a.v>>)))
        c == After(b.calls, At("result", Call(b.v, <<x>>)))
    IN  IF ~Ok(a) THEN a ELSE IF ~Ok(b) THEN b ELSE c

\* Reader.apply._compose, g being something.run()
Apply_compose(self, g, x) ==
    LET f == At("self", Reader_call(self, <<x>>))
        gx == After(f.calls, At("g", Call(g, <<x>>)))
        tried == IF Ok(gx) THEN After(gx.calls, At("f", Call(f.v, <<gx.v>>))) ELSE gx
        gx2 == After(tried.calls, At("g", Call(g, <<x>>)))
    IN  IF ~Ok(f) THEN f
        ELSE IF ~IsTypeError(tried.exc) THEN tried
        ELSE IF ~Ok(gx2) THEN gx2
        ELSE MkPartial(f.v, gx2.v, gx2.calls)

\* Reader.apply: g = something.run(); Reader(_compose)
Reader_apply(self, something) ==
    ReaderObj("Reader", [t |-> "apply_compose", self |-> self,
                         g |-> Reader_run(something, << >>).v])

\* the lambda of Reader.unit: lambda _: value
Unit_lambda(value, x) == Ret(value, NoCalls)

\* the lambda of MonadReader.ask: lambda x: x
Ask_lambda(x) == Ret(x, NoCalls)

\* the lambda of MonadReader.asks without the projection: cls.unit(e)
Asks_lambda_no_func(cls, func, e) == Ret(Reader_unit(cls, e), NoCalls)

\* the lambda of MonadReader.asks: cls.unit(func(e))
Asks_lambda(cls, func, e) ==
    LET a == At("func", Call(func, <<e>>))
    IN  IF Ok(a) THEN Ret(Reader_unit(cls, a.v), a.calls) ELSE a

\* the lambda of MonadReader.local without the change of environment: self.run(e)
Local_lambda_same_env(self, func, e) == At("self", Reader_run(self, <<e>>))

\* the lambda of MonadReader.local: self.run(func(e))
Local_lambda(self, func, e) ==
    LET a == At("func", Call(func, <<e>>))
    IN  IF Ok(a) THEN After(a.calls, At("self", Reader_run(self, <<a.v>>))) ELSE a

\* the lambda of State.unit: lambda state: (value, state)
State_unit_lambda(value, s) == Ret(PyTuple(value, s), NoCalls)

\* the lambda of State.get: lambda state: (state, state)
Get_lambda(s) == Ret(PyTuple(s, s), NoCalls)

\* the lambda of State.put keeping the old state: lambda state: (Unit, state)
Put_lambda_keeps_state(new_state, s) == Ret(PyTuple(Unit, s), NoCalls)

\* the lambda of State.put: lambda state: (Unit, new_state)
Put_lambda(new_state, s) == Ret(PyTuple(Unit, new_state), NoCalls)

\* the lambda of State.map returning the state it was given, not the one self left
State_map_lambda_old_state(self, mapper, s) ==
    LET r == At("self", State_run(self, s))
        b == After(r.calls, At("mapper", Call(mapper, <<r.v.a>>)))
    IN  IF ~Ok(r) THEN r
        ELSE IF r.v.t # "tuple" THEN Raise("TypeError:operand", r.calls)
        ELSE IF ~Ok(b) THEN b
        ELSE Ret(PyTuple(b.v, s), b.calls)

\* the lambda of State.map: _(*self.run(state)), _ returning (mapper(a), state)
State_map_lambda(self, mapper, s) ==
    LET r == At("self", State_run(self, s))
        b == After(r.calls, At("mapper", Call(mapper, <<r.v.a>>)))
    IN  IF ~Ok(r) THEN r
        ELSE IF r.v.t # "tuple" THEN Raise("TypeError:operand", r.calls)
        ELSE IF ~Ok(b) THEN b
        ELSE Ret(PyTuple(b.v, r.v.b), b.calls)

\* obj.run(state) on whatever the bound function returned
Run_method(obj, s) ==
    CASE obj.t = "State" -> State_run(obj, s)
      [] obj.t = "Reader" -> Reader_run(obj, <<s>>)
      [] OTHER -> Raise("AttributeError", NoCalls)

\* the lambda of State.bind running fn(result) on the state it was given
State_bind_lambda_old_state(self, fn, s) ==
    LET r == At("self", State_run(self, s))
        b == After(r.calls, At("fn", Call(fn, <<r.v.a>>)))
        c == After(b.calls, At("result", Run_method(b.v, s)))
    IN  IF ~Ok(r) THEN r
        ELSE IF r.v.t # "tuple" THEN Raise("TypeError:operand", r.calls)
        ELSE IF ~Ok(b) THEN b
        ELSE c

\* the lambda of State.bind: _(*self.run(state)), _ returning fn(result).run(state)
State_bind_lambda(self, fn, s) ==
    LET r == At("self", State_run(self, s))
        b == After(r.calls, At("fn", Call(fn, <<r.v.a>>)))
        c == After(b.calls, At("result", Run_method(b.v, r.v.b)))
    IN  IF ~Ok(r) THEN r
        ELSE IF r.v.t # "tuple" THEN Raise("TypeError:operand", r.calls)
        ELSE IF ~Ok(b) THEN b
        ELSE c

\* ------------------------------------------------- the caller's functions
\* The functions handed to the combinators, by name:
\*   identity  lambda x: x              inc      lambda x: x + 1
\*   dbl       lambda x: x * 2          add      lambda a, b: a + b
\*   boom      lambda x: 1 / 0          badtype  lambda x: x + None
\*   call10    lambda f: f(10)          tick     lambda s: (1, s + 1)
\*   kadd      lambda x: Reader(lambda e: x + e)
\*   m2        lambda a: State(lambda s: (a + 1, s * 2))
\*   Reader.unit, State.unit, State.put: the class methods, passed as functions
Arity(name) == IF name = "add" THEN 2 ELSE 1

User_body(name, args) ==
    LET x == args[1]
    IN  CASE name = "identity" -> Ret(x, NoCalls)
          [] name = "inc" ->
                IF x.t = "int" THEN Ret(PyInt(x.n + 1), NoCalls)
                ELSE Raise("TypeError:operand", NoCalls)
          [] name = "dbl" ->
                IF x.t = "int" THEN Ret(PyInt(x.n * 2), NoCalls)
                ELSE Raise("TypeError:operand", NoCalls)
          [] name = "add" ->
                IF x.t = "int" /\ args[2].t = "int" THEN Ret(PyInt(x.n + args[2].n), NoCalls)
                ELSE Raise("TypeError:operand", NoCalls)
          [] name = "boom" -> Raise("ZeroDivisionError", NoCalls)
          [] name = "badtype" -> Raise("TypeError:operand", NoCalls)
          [] name = "call10" -> At("user", Call(x, <<PyInt(10)>>))
          [] name = "tick" ->
                IF x.t = "int" THEN Ret(PyTuple(PyInt(1), PyInt(x.n + 1)), NoCalls)
                ELSE Raise("TypeError:operand", NoCalls)
          [] name = "kadd" -> Ret(ReaderObj("Reader", Clo("addenv", x)), NoCalls)
          [] name = "m2" -> Ret(StateObj(Clo("m2body", x)), NoCalls)
          [] name = "Reader.unit" -> Ret(Reader_unit("Reader", x), NoCalls)
          [] name = "State.unit" -> Ret(State_unit(x), NoCalls)
          [] name = "State.put" -> Ret(State_put(x), NoCalls)

User_fn(name, args) ==
    IF Len(args) # Arity(name) THEN Raise("TypeError:arity", NoCalls)
    ELSE User_body(name, args)

\* the inner lambdas of kadd (lambda e: x + e) and m2 (lambda s: (a + 1, s * 2))
User_clo(name, c, args) ==
    IF Len(args) # 1 THEN Raise("TypeError:arity", NoCalls)
    ELSE IF c.t # "int" \/ args[1].t # "int" THEN Raise("TypeError:operand", NoCalls)
    ELSE IF name = "addenv" THEN Ret(PyInt(c.n + args[1].n), NoCalls)
    ELSE Ret(PyTuple(PyInt(c.n + 1), PyInt(args[1].n * 2)), NoCalls)

\* lambda x: g(f(x)), the composed function of the functor law
Compose(f, g) == [t |-> "compose", f |-> f, g |-> g]
\* lambda x: f(x).bind(g), the composed function of the associativity law
KCompose(f, g) == [t |-> "kcompose", f |-> f, g |-> g]

Compose_body(f, g, x) ==
    LET a == At("user", Call(f, <<x>>))
    IN  IF Ok(a) THEN After(a.calls, At("user", Call(g, <<a.v>>))) ELSE a

KCompose_body(f, g, x) ==
    LET a == At("user", Call(f, <<x>>))
    IN  IF ~Ok(a) THEN a
        ELSE IF a.v.t # "Reader" THEN Raise("AttributeError", a.calls)
        ELSE Ret(Reader_bind(a.v, g), a.calls)

\* the body of a closure of the library, called with its one argument
Lib_lambda(f, x) ==
    CASE f.t = "unit_lambda" -> Unit_lambda(f.value, x)
      [] f.t = "map_compose" -> Map_compose(f.self, f.fn, x)
      [] f.t = "bind_lambda" -> Bind_lambda(f.self, f.fn, x)
      [] f.t = "apply_compose" -> Apply_compose(f.self, f.g, x)
      [] f.t = "ask_lambda" -> Ask_lambda(x)
      [] f.t = "asks_lambda" -> Asks_lambda(f.cls, f.func, x)
      [] f.t = "local_lambda" -> Local_lambda(f.self, f.func, x)
      [] f.t = "state_unit_lambda" -> State_unit_lambda(f.value, x)
      [] f.t = "state_map_lambda" -> State_map_lambda(f.self, f.mapper, x)
      [] f.t = "state_bind_lambda" -> State_bind_lambda(f.self, f.fn, x)
      [] f.t = "get_lambda" -> Get_lambda(x)
      [] f.t = "put_lambda" -> Put_lambda(f.new_state, x)

\* f(*args) for any value f
Call(f, args) ==
    CASE f.t = "fn" -> User_fn(f.name, args)
      [] f.t = "clo" -> User_clo(f.name, f.c, args)
      [] f.t = "compose" ->
            IF Len(args) # 1 THEN Raise("TypeError:arity", NoCalls)
            ELSE Compose_body(f.f, f.g, args[1])
      [] f.t = "kcompose" ->
            IF Len(args) # 1 THEN Raise("TypeError:arity", NoCalls)
            ELSE KCompose_body(f.f, f.g, args[1])
      [] f.t = "partial" -> Partial_call(f, args)
      [] f.t = "Reader" -> Reader_call(f, args)
      [] f.t = "State" -> State_call(f, args)
      [] f.t \in LibLambdas ->
            IF Len(args) # 1 THEN Raise("TypeError:arity", NoCalls)
            ELSE Lib_lambda(f, args[1])
      [] OTHER -> Raise("TypeError:notcallable", NoCalls)

\* ---------------------------------------------------------------- equality
\* the probe of Reader.__eq__ and of State.__eq__
environment == 42
state == 42

RECURSIVE PyEq(_, _)

\* Reader.__eq__: try self(environment) == other(environment), except Exception: False
Reader_eq(self, other) ==
    LET a == Reader_call(self, <<PyInt(environment)>>)
        b == Call(other, <<PyInt(environment)>>)
        c == PyEq(a.v, b.v)
    IN  IF Ok(a) /\ Ok(b) /\ Ok(c) THEN Ret(c.v, NoCalls)
        ELSE Ret(PyBool(FALSE), NoCalls)

\* State.__eq__: self(state) == other(state)
State_eq(self, other) ==
    LET a == State_call(self, <<PyInt(state)>>)
        b == Call(other, <<PyInt(state)>>)
    IN  IF ~Ok(a) THEN Raise(a.exc, NoCalls)
        ELSE IF ~Ok(b) THEN Raise(b.exc, NoCalls)
        ELSE PyEq(a.v, b.v)

\* a == b of Python on two results: a Reader or State operand decides with its
\* __eq__ (reflected when it is the right operand), tuples compare by items,
\* partial objects made by two calls are two objects, the rest by value
PyEq(a, b) ==
    CASE a.t = "Reader" -> Reader_eq(a, b)
      [] a.t = "State" -> State_eq(a, b)
      [] b.t = "Reader" -> Reader_eq(b, a)
      [] b.t = "State" -> State_eq(b, a)
      [] a.t = "tuple" /\ b.t = "tuple" ->
            LET x == PyEq(a.a, b.a)
            IN  IF Ok(x) /\ x.v.b THEN PyEq(a.b, b.b) ELSE x
      [] a.t = "partial" \/ b.t = "partial" -> Ret(PyBool(FALSE), NoCalls)
      [] OTHER -> Ret(PyBool(a = b), NoCalls)

\* ------------------------------------------------------------ the program
\* A caller builds a computation from a base one with the combinators, then
\* runs it on an environment (an initial state), runs it with no argument,
\* or compares it with another computation.
VARIABLES m, n, pc, arg, res

vars == <<m, n, pc, arg, res>>

Envs == {PyInt(e) : e \in 0 .. MaxEnv} \cup {PyInt(5)}

MapFns == {"identity", "inc", "dbl", "add", "boom", "badtype", "call10"}
ReaderKs == {"Reader.unit", "kadd"}
StateKs == {"State.unit", "State.put", "m2"}
LocalFns == {"inc", "dbl"}

BaseReaders ==
    {Reader_unit("MonadReader", PyInt(v)) : v \in 0 .. MaxEnv}
    \cup {Reader_pure("Reader", Fn(g)) : g \in {"inc", "add"}}
    \cup {ask("MonadReader"), asks("MonadReader", Fn("dbl")),
          ReaderObj("MonadReader", Fn("boom"))}

BaseStates ==
    {State_unit(PyInt(0)), State_get, State_put(PyInt(1)),
     StateObj(Fn("tick")), StateObj(Fn("boom"))}

\* the operands of apply and the right operands of ==
ArgReaders == {ask("MonadReader"), Reader_unit("Reader", PyInt(1))}
EqReaders == {ask("MonadReader"), ReaderObj("Reader", Fn("boom"))}
EqStates == {State_get, StateObj(Fn("boom"))}

Init ==
    /\ m \in BaseReaders \cup BaseStates
    /\ n = 0
    /\ pc = "built"
    /\ arg = None
    /\ res = Ret(None, NoCalls)

Building(cls) == pc = "built" /\ m.t = cls /\ n < MaxDepth

Built(x) == m' = x /\ n' = n + 1 /\ UNCHANGED <<pc, arg, res>>

ReaderMap == Building("Reader") /\ \E f \in MapFns : Built(Reader_map(m, Fn(f)))

ReaderBind == Building("Reader") /\ \E k \in ReaderKs : Built(Reader_bind(m, Fn(k)))

ReaderApply == Building("Reader") /\ \E r \in ArgReaders : Built(Reader_apply(m, r))

\* local is a method of MonadReader only; the combinators return plain Readers
ReaderLocal ==
    Building("Reader") /\ m.cls = "MonadReader" /\ \E f \in LocalFns : Built(local(m, Fn(f)))

StateMap == Building("State") /\ \E f \in MapFns : Built(State_map(m, Fn(f)))

StateBind == Building("State") /\ \E k \in StateKs : Built(State_bind(m, Fn(k)))

Done(label, a, o) == pc' = label /\ arg' = a /\ res' = o /\ UNCHANGED <<m, n>>

ReaderRun ==
    pc = "built" /\ m.t = "Reader" /\ \E e \in Envs : Done("ran", e, Reader_run(m, <<e>>))

ReaderRunNoArgs ==
    pc = "built" /\ m.t = "Reader" /\ Done("ran0", None, Reader_run(m, << >>))

StateRun ==
    pc = "built" /\ m.t = "State" /\ \E s \in Envs : Done("ran", s, State_run(m, s))

ReaderEq ==
    pc = "built" /\ m.t = "Reader" /\ \E o \in EqReaders : Done("compared", o, Reader_eq(m, o))

StateEq ==
    pc = "built" /\ m.t = "State" /\ \E o \in EqStates : Done("compared", o, State_eq(m, o))

Next ==
    \/ ReaderMap
    \/ ReaderBind
    \/ ReaderApply
    \/ ReaderLocal
    \/ StateMap
    \/ StateBind
    \/ ReaderRun
    \/ ReaderRunNoArgs
    \/ StateRun
    \/ ReaderEq
    \/ StateEq

Spec == Init /\ [][Next]_vars

\* ------------------------------------------------------------------ claims
\* the shapes of the computation that was run
IsReader(f) == m.t = "Reader" /\ m.fn.t = f
IsState(f) == m.t = "State" /\ m.value.t = f
RanReader(f) == pc = "ran" /\ IsReader(f)
RanState(f) == pc = "ran" /\ IsState(f)

\* r.run(e) and s.run(s0) as the caller sees them
RunR(r, e) == Seen(Reader_run(r, <<e>>))
RunS(st, s0) == Seen(State_run(st, s0))

\* f(x).run(e): the exception of f(x) when it raises
ThenRunR(fx, e) == IF Ok(fx) THEN RunR(fx.v, e) ELSE Seen(fx)

Value(v) == [exc |-> "none", v |-> v]

\* C1 (left identity): unit(x).bind(f).run(e) is f(x).run(e)
C1_LeftIdentity ==
    (RanReader("bind_lambda") /\ m.fn.self.fn.t = "unit_lambda")
        => Seen(res) = ThenRunR(Call(m.fn.fn, <<m.fn.self.fn.value>>), arg)

\* C1 (right identity): m.bind(Reader.unit).run(e) is m.run(e)
C1_RightIdentity ==
    (RanReader("bind_lambda") /\ m.fn.fn = Fn("Reader.unit"))
        => Seen(res) = RunR(m.fn.self, arg)

\* C1 (associativity): m.bind(f).bind(g).run(e) is
\* m.bind(lambda x: f(x).bind(g)).run(e)
C1_Associativity ==
    (RanReader("bind_lambda") /\ m.fn.self.fn.t = "bind_lambda")
        => Seen(res) = RunR(Reader_bind(m.fn.self.fn.self,
                                        KCompose(m.fn.self.fn.fn, m.fn.fn)), arg)

\* C1: Reader satisfies the three monad laws under run, on every environment
C1_MonadLaws == C1_LeftIdentity /\ C1_RightIdentity /\ C1_Associativity

\* C1 witness: ask().bind(kadd).bind(kadd) was run on 1 and gave 1 + 1 + 1
C1_Witness ==
    /\ pc = "ran"
    /\ m = Reader_bind(Reader_bind(ask("MonadReader"), Fn("kadd")), Fn("kadd"))
    /\ arg = PyInt(1)
    /\ Seen(res) = Value(PyInt(3))

\* C2: State.bind threads the state: when m.run(s) is (a, s1),
\* m.bind(f).run(s) is f(a).run(s1); and m1.bind(m2).run(5) is (2, 12)
C2_BindThreads ==
    /\ RanState("state_bind_lambda") =>
          LET r == State_run(m.value.self, arg)
              fa == Call(m.value.fn, <<r.v.a>>)
          IN  (Ok(r) /\ r.v.t = "tuple" /\ Ok(fa)) => Seen(res) = RunS(fa.v, r.v.b)
    /\ (pc = "ran" /\ m = State_bind(StateObj(Fn("tick")), Fn("m2")) /\ arg = PyInt(5))
          => Seen(res) = Value(PyTuple(PyInt(2), PyInt(12)))

\* C2 witness: m1.bind(m2) was run on 5 and gave (2, 12)
C2_Witness ==
    /\ pc = "ran"
    /\ m = State_bind(StateObj(Fn("tick")), Fn("m2"))
    /\ arg = PyInt(5)
    /\ Seen(res) = Value(PyTuple(PyInt(2), PyInt(12)))

\* Reader.pure(g).map(lambda f: f(10))
IsPureMapCall10 ==
    IsReader("map_compose") /\ m.fn.fn = Fn("call10") /\ m.fn.self.fn.t = "unit_lambda"

\* C3 as stated: Reader.pure(g).map(lambda f: f(10)).run(), with no argument,
\* evaluates to g(10)
C3_RunNoArgsGivesValue ==
    (pc = "ran0" /\ IsPureMapCall10)
        => LET g10 == Call(m.fn.self.fn.value, <<PyInt(10)>>)
           IN  Ok(g10) => Seen(res) = Seen(g10)

\* C3 amended: run() with no argument returns the wrapped function and calls
\* nothing; Reader.pure(g).map(lambda f: f(10)).run(e) is g(10) on every
\* environment e, for every g that returns a value on 10 (11 for x + 1)
C3_RunWithEnvGivesValue ==
    /\ (pc = "ran0" /\ m.t = "Reader") => res = Ret(m.fn, NoCalls)
    /\ (pc = "ran" /\ IsPureMapCall10) =>
          LET g10 == Call(m.fn.self.fn.value, <<PyInt(10)>>)
          IN  Ok(g10) => Seen(res) = Seen(g10)
    /\ (pc = "ran" /\ m = Reader_map(Reader_pure("Reader", Fn("inc")), Fn("call10")))
          => Seen(res) = Value(PyInt(11))

\* C3 witness: Reader.pure(lambda x: x + 1).map(lambda f: f(10)) was run on an
\* environment and gave 11
C3_Witness ==
    /\ pc = "ran"
    /\ m = Reader_map(Reader_pure("Reader", Fn("inc")), Fn("call10"))
    /\ Seen(res) = Value(PyInt(11))

\* the calls the computation that was run made itself at `site`
Count(site) == Cardinality({i \in DOMAIN res.calls :
                              res.calls[i].d = 1 /\ res.calls[i].site = site})

\* C4: in one run of a Reader or State made by map, bind, apply or local, the
\* wrapped function of self, and of the operand of apply, is invoked at most once
C4_AtMostOnce == pc = "ran" => (Count("self") <= 1 /\ Count("g") <= 1)

\* C5: map and apply return a partial function only when the application of
\* the function fails on its number of arguments; any other exception of
\* that application reaches the caller of run
C5_OnlyArityFallsBack ==
    /\ RanReader("map_compose") =>
          LET a == Reader_call(m.fn.self, <<arg>>)
              b == Call(m.fn.fn, <<a.v>>)
          IN  (Ok(a) /\ ~Ok(b) /\ b.exc # "TypeError:arity") => Seen(res) = Seen(b)
    /\ RanReader("apply_compose") =>
          LET f == Reader_call(m.fn.self, <<arg>>)
              gx == Call(m.fn.g, <<arg>>)
              b == Call(f.v, <<gx.v>>)
          IN  (Ok(f) /\ Ok(gx) /\ ~Ok(b) /\ b.exc # "TypeError:arity") => Seen(res) = Seen(b)

\* m0.map(f).map(g), of Reader and of State
IsMapMapR == IsReader("map_compose") /\ m.fn.self.fn.t = "map_compose"
IsMapMapS == IsState("state_map_lambda") /\ m.value.self.value.t = "state_map_lambda"

\* the functor identity law, Reader and State: m.map(identity).run(c) is m.run(c)
FunctorIdentity ==
    /\ (RanReader("map_compose") /\ m.fn.fn = Fn("identity"))
          => Seen(res) = RunR(m.fn.self, arg)
    /\ (RanState("state_map_lambda") /\ m.value.mapper = Fn("identity"))
          => Seen(res) = RunS(m.value.self, arg)

\* the functor composition law of State:
\* m.map(f).map(g).run(c) is m.map(lambda x: g(f(x))).run(c)
StateComposition ==
    (pc = "ran" /\ IsMapMapS)
        => Seen(res) = RunS(State_map(m.value.self.value.self,
                                      Compose(m.value.self.value.mapper, m.value.mapper)), arg)

\* the same law of Reader
ReaderComposed ==
    RunR(Reader_map(m.fn.self.fn.self, Compose(m.fn.self.fn.fn, m.fn.fn)), arg)

\* neither f on the result of m0 nor g on the result of f raises a TypeError
NoTypeErrorApplying ==
    LET v == Reader_run(m.fn.self.fn.self, <<arg>>)
        fv == Call(m.fn.self.fn.fn, <<v.v>>)
        gfv == Call(m.fn.fn, <<fv.v>>)
    IN  Ok(v) => (~IsTypeError(fv.exc) /\ (Ok(fv) => ~IsTypeError(gfv.exc)))

\* C6 as stated: the functor laws hold for Reader and State for all f and g,
\* a curried two-argument f included
C6_FunctorLawsAllFunctions ==
    /\ FunctorIdentity
    /\ StateComposition
    /\ (pc = "ran" /\ IsMapMapR) => Seen(res) = ReaderComposed

\* C6 amended: the identity law holds for Reader and State and the
\* composition law for State, for all functions; the composition law holds
\* for Reader when applying f and then g raises no TypeError
C6_FunctorLaws ==
    /\ FunctorIdentity
    /\ StateComposition
    /\ (pc = "ran" /\ IsMapMapR /\ NoTypeErrorApplying) => Seen(res) = ReaderComposed

\* C6 witness: ask().map(x + 1).map(x * 2) was run on 1 and gave (1 + 1) * 2
C6_Witness ==
    /\ pc = "ran"
    /\ m = Reader_map(Reader_map(ask("MonadReader"), Fn("inc")), Fn("dbl"))
    /\ arg = PyInt(1)
    /\ Seen(res) = Value(PyInt(4))

\* C7: when probing either side of == with 42 raises, the comparison is
\* False and raises nothing, for Reader and for State
C7_EqNeverRaises ==
    pc = "compared" =>
        LET probe == PyInt(IF m.t = "State" THEN state ELSE environment)
            a == Call(m, <<probe>>)
            b == Call(arg, <<probe>>)
        IN  (~Ok(a) \/ ~Ok(b)) => Seen(res) = Value(PyBool(FALSE))

\* C8: r.local(f).run(e) is r.run(f(e)); and in r.local(f).bind(k).run(e) the
\* reader that k returns is run on e
C8_LocalScopes ==
    /\ RanReader("local_lambda") =>
          LET fe == Call(m.fn.func, <<arg>>)
          IN  Seen(res) = IF Ok(fe) THEN RunR(m.fn.self, fe.v) ELSE Seen(fe)
    /\ (RanReader("bind_lambda") /\ m.fn.self.fn.t = "local_lambda") =>
          LET l == m.fn.self.fn
              fe == Call(l.func, <<arg>>)
              a == Reader_run(l.self, <<fe.v>>)
              ka == Call(m.fn.fn, <<a.v>>)
          IN  (Ok(fe) /\ Ok(a) /\ Ok(ka)) => Seen(res) = RunR(ka.v, arg)

\* C8 witness: ask().local(x * 2).bind(kadd) was run on 1 and gave 1 * 2 + 1
C8_Witness ==
    /\ pc = "ran"
    /\ m = Reader_bind(local(ask("MonadReader"), Fn("dbl")), Fn("kadd"))
    /\ arg = PyInt(1)
    /\ Seen(res) = Value(PyInt(3))

\* C9: get().bind(put).run(s) is (Unit, s); put(n).run(s) is (Unit, n);
\* get().run(s) is (s, s)
C9_GetPut ==
    /\ (pc = "ran" /\ m = State_bind(State_get, Fn("State.put")))
          => Seen(res) = Value(PyTuple(Unit, arg))
    /\ RanState("put_lambda") => Seen(res) = Value(PyTuple(Unit, m.value.new_state))
    /\ (pc = "ran" /\ m = State_get) => Seen(res) = Value(PyTuple(arg, arg))

\* C9 witness: put(1) was run on the state 0 and gave (Unit, 1)
C9_Witness ==
    /\ pc = "ran"
    /\ m = State_put(PyInt(1))
    /\ arg = PyInt(0)
    /\ Seen(res) = Value(PyTuple(Unit, PyInt(1)))

\* the Reader that asks(f) returns
IsAsks == IsReader("bind_lambda") /\ m.fn.fn.t = "Reader" /\ m.fn.fn.fn.t = "asks_lambda"
             /\ m.fn.self.fn.t = "ask_lambda"

\* C10: ask().run(e) is e; asks(f).run(e) is f(e), and what
\* ask().bind(lambda env: unit(f(env))).run(e) is
C10_AskAsks ==
    /\ RanReader("ask_lambda") => Seen(res) = Value(arg)
    /\ (pc = "ran" /\ IsAsks) =>
          /\ Seen(res) = Seen(Call(m.fn.fn.fn.func, <<arg>>))
          /\ Seen(res) = RunR(Reader_bind(ask("MonadReader"),
                                           Compose(m.fn.fn.fn.func, Fn("Reader.unit"))), arg)

\* C10 witness: asks(x * 2) was run on 1 and gave 2
C10_Witness ==
    /\ pc = "ran"
    /\ m = asks("MonadReader", Fn("dbl"))
    /\ arg = PyInt(1)
    /\ Seen(res) = Value(PyInt(2))

====
